---- MODULE Spec2Model ----
(***************************************************************************)
(* Model of the log viewer components of Large-file-streamer.              *)
(*                                                                         *)
(*   live-tailing viewer   src/unnamed/part_006          (Spec, SpecStream)*)
(*   local/remote viewer   src/unnamed/part_005                            *)
(*   capped viewer         src/components/LogViewer.tsx                    *)
(*                                                                         *)
(* Text is a sequence of code points, a line is a text without the         *)
(* terminator, a byte is a number in 0..255.  Every continuation of an     *)
(* async function (from one await to the next) is one atomic action, as    *)
(* the browser runs it; React state written in that continuation is        *)
(* published together.                                                     *)
(***************************************************************************)
EXTENDS Integers, Sequences, FiniteSets, TLC

\* ---------------------------------------------------------------- bounds

\* Longest source file, in bytes, of the full viewer model.
MaxLen == 2
\* Longest byte stream of the line-reconstruction model (SpecStream).
MaxStreamLen == 4
\* Number of sessions (effect runs for a source) one mounted viewer sees.
MaxSessions == 2
\* Number of tail range requests in flight at once.
MaxPolls == 2
\* Longest file of the capped viewer's model, in bytes.
MaxCappedLen == 4
\* Largest totalBytes up to which tail content is still accepted.
MaxTotalBytes == 3

\* ------------------------------------------------------------ characters

\* "\n", the line terminator; U+FFFD, what the decoder puts for a malformed
\* sequence; U+FEFF, the byte order mark.
NL == 10
Replacement == 65533
BOM == 65279

\* Bytes of the reconstruction model: "\n", "a", the two bytes of U+00E9
\* and the three bytes of U+FEFF (so that a split can fall inside a
\* multi-byte sequence, and a byte order mark can open the stream).
StreamBytes == {10, 97, 195, 169, 239, 187, 191}
\* Bytes of the files of the full viewer model.
FileBytes == {10, 97}

RECURSIVE SeqsUpTo(_, _)
SeqsUpTo(S, n) ==
    IF n = 0 THEN {<<>>}
    ELSE LET shorter == SeqsUpTo(S, n - 1)
         IN  shorter \cup {Append(q, x) : q \in {r \in shorter : Len(r) = n - 1}, x \in S}

IsPrefix(p, q) == Len(p) <= Len(q) /\ SubSeq(q, 1, Len(p)) = p

\* ------------------------------------------------------- TextDecoder

\* new TextDecoder(): the UTF-8 decoder's state, nothing pending.
NewDecoder ==
    [cp |-> 0, needed |-> 0, seen |-> 0, lower |-> 128, upper |-> 191, bomSeen |-> FALSE]

ResetSequence(d) == [d EXCEPT !.cp = 0, !.needed = 0, !.seen = 0, !.lower = 128, !.upper = 191]

\* One byte through the UTF-8 decoder: [dec, out, again]; again = the byte is
\* put back and handled once more (an interrupted sequence).
DecodeByte(d, b) ==
    IF d.needed = 0 THEN
        IF b <= 127 THEN [dec |-> d, out |-> <<b>>, again |-> FALSE]
        ELSE IF b >= 194 /\ b <= 223 THEN
            [dec |-> [d EXCEPT !.needed = 1, !.cp = b % 32], out |-> <<>>, again |-> FALSE]
        ELSE IF b >= 224 /\ b <= 239 THEN
            [dec |-> [d EXCEPT !.needed = 2, !.cp = b % 16,
                               !.lower = IF b = 224 THEN 160 ELSE 128,
                               !.upper = IF b = 237 THEN 159 ELSE 191],
             out |-> <<>>, again |-> FALSE]
        ELSE IF b >= 240 /\ b <= 244 THEN
            [dec |-> [d EXCEPT !.needed = 3, !.cp = b % 8,
                               !.lower = IF b = 240 THEN 144 ELSE 128,
                               !.upper = IF b = 244 THEN 143 ELSE 191],
             out |-> <<>>, again |-> FALSE]
        ELSE [dec |-> d, out |-> <<Replacement>>, again |-> FALSE]
    ELSE IF b < d.lower \/ b > d.upper THEN
        [dec |-> ResetSequence(d), out |-> <<Replacement>>, again |-> TRUE]
    ELSE LET cp == d.cp * 64 + (b % 64)
         IN  IF d.seen + 1 = d.needed
             THEN [dec |-> ResetSequence(d), out |-> <<cp>>, again |-> FALSE]
             ELSE [dec |-> [d EXCEPT !.cp = cp, !.seen = d.seen + 1, !.lower = 128, !.upper = 191],
                   out |-> <<>>, again |-> FALSE]

\* The code points leave the decoder through the byte-order-mark filter: a
\* U+FEFF that is the first code point of the stream is dropped.
SerializeOut(d, out) ==
    IF out = <<>> \/ d.bomSeen THEN [dec |-> d, out |-> out]
    ELSE [dec |-> [d EXCEPT !.bomSeen = TRUE],
          out |-> IF Head(out) = BOM THEN Tail(out) ELSE out]

RECURSIVE DecodeBytes(_, _)
DecodeBytes(d, bytes) ==
    IF bytes = <<>> THEN [dec |-> d, out |-> <<>>]
    ELSE LET r == DecodeByte(d, Head(bytes))
             s == SerializeOut(r.dec, r.out)
             rest == DecodeBytes(s.dec, IF r.again THEN bytes ELSE Tail(bytes))
         IN  [dec |-> rest.dec, out |-> s.out \o rest.out]

\* new TextDecoder().decode(bytes): a sequence cut by the end of the input is
\* flushed as U+FFFD.
DecodeAll(bytes) ==
    LET r == DecodeBytes(NewDecoder, bytes)
    IN  IF r.dec.needed = 0 THEN r.out
        ELSE SerializeOut(r.dec, <<Replacement>>).out

\* Mutant of DecodeStream: every chunk decoded alone, without { stream: true }.
DecodeStreamFlushing(d, bytes) == [dec |-> d, out |-> DecodeAll(bytes)]

\* decoder.decode(value, { stream: true }): a sequence cut by the end of the
\* chunk stays pending in the decoder.
DecodeStream(d, bytes) == DecodeBytes(d, bytes)

\* ------------------------------------------------------- String.split

\* text.split('\n'): the segments between terminators, at least one.
RECURSIVE Split(_)
Split(text) ==
    IF \A i \in 1..Len(text) : text[i] # NL THEN <<text>>
    ELSE LET k == CHOOSE i \in 1..Len(text) :
                      text[i] = NL /\ \A j \in 1..(i - 1) : text[j] # NL
         IN  <<SubSeq(text, 1, k - 1)>> \o Split(SubSeq(text, k + 1, Len(text)))

\* lines.pop(): the array without its last element.
Front(ss) == SubSeq(ss, 1, Len(ss) - 1)
Last(ss) == ss[Len(ss)]

\* ------------------------------------------------------------- state

VARIABLES
    sources,              \* the source prop of each session: [type, file]
    tasks,                \* the streamLogFile call of each session
    logLines,
    totalBytes,
    fileSize,
    status,
    error,
    isLive,
    isLivePaused,
    searchTerm,
    debouncedSearchTerm,
    isSearching,
    debounceTimers,       \* the pending timeouts of the debounce effect, oldest first,
                          \* each with the searchTerm of its closure
    scrollTop,
    tailingIntervalRef,   \* tailingIntervalRef.current: null or the id of an interval
    intervals,            \* the ids of the intervals of setInterval not yet cleared
    polls,                \* tail range requests in flight
    hidden,               \* document.hidden
    isInitialLoad,        \* isInitialLoad.current
    clientHeight,         \* clientHeight of the log container
    logServerUrl,         \* the base location the App holds
    listing,              \* a call of fetchLogFiles: its position and its result
    filteredMemo          \* what useMemo holds for filteredLines: the dependencies
                          \* of its last computation and the value

vars == <<sources, tasks, logLines, totalBytes, fileSize, status, error, isLive,
          isLivePaused, searchTerm, debouncedSearchTerm, isSearching,
          debounceTimers, scrollTop, tailingIntervalRef, intervals, polls, hidden,
          isInitialLoad, clientHeight, filteredMemo, logServerUrl, listing>>

streamVars == <<logLines, totalBytes, fileSize, status, error>>
liveVars == <<isLive, isLivePaused>>
appVars == <<logServerUrl, listing>>
timerVars == <<tailingIntervalRef, intervals>>
searchVars == <<searchTerm, debouncedSearchTerm, isSearching, debounceTimers>>

\* A timeout of the debounce effect is pending.
debouncePending == debounceTimers # <<>>

\* error is null, or the pieces of the template literal it was set to.
NoError == <<>>
NoSize == -1

\* tailingIntervalRef.current before the first setInterval (useRef(null)).
NoInterval == 0

\* An interval set by the tailing effect runs.
timerOn == intervals # {}

FetchingSize == "Fetching file size..."
Connecting == "Connecting to stream..."
StreamingRemote == "Streaming log data..."
ReadingLocal == "Reading local file..."
StreamingLocal == "Streaming local file..."
Finished == "Stream finished."
Errored == "Error occurred."
Cancelled == "Stream cancelled."
Live == "Live"
LiveError == "Live (Error)"

\* The session that owns the viewer: the latest run of the streaming effect.
session == Len(sources)
source == sources[session]

isLoading ==
    status \in {Connecting, StreamingRemote, ReadingLocal, StreamingLocal, FetchingSize}

\* The status label of the header (line 362).
LivePaused == "Live (Paused)"

shownStatus == IF isLive /\ isLivePaused THEN LivePaused ELSE status

\* ------------------------------------------- streamLogFile (part_006)

\* The locals of one streamLogFile call and the signal it was given.
NewTask(pc) ==
    [pc |-> pc, body |-> <<>>, pos |-> 0, decoder |-> NewDecoder, buffer |-> <<>>,
     allLines |-> <<>>, aborted |-> FALSE]

\* The call has returned: its locals are gone; pos stays as the number of
\* bytes the reader handed over.
Returned(task) == [NewTask("end") EXCEPT !.aborted = task.aborted, !.pos = task.pos]

\* Mutant of ByteLength: the length of the decoded text.
DecodedLength(value) == Len(DecodeAll(value))

\* value.length of a chunk: its number of bytes.
ByteLength(value) == Len(value)

\* Mutant of ConsumeChunk: the pending fragment is not carried into the next
\* chunk.
ConsumeChunkNoCarry(decoder, buffer, value) ==
    LET d == DecodeStream(decoder, value)
        lines == Split(d.out)
    IN  [decoder |-> d.dec, buffer |-> Last(lines), lines |-> Front(lines)]

\* Mutant of ConsumeChunk: the last segment is stored with the complete lines.
ConsumeChunkEager(decoder, buffer, value) ==
    LET d == DecodeStream(decoder, value)
        lines == Split(buffer \o d.out)
    IN  [decoder |-> d.dec, buffer |-> <<>>,
         lines |-> IF Last(lines) = <<>> THEN Front(lines) ELSE lines]

\* One pass of the read loop over a chunk: what is appended to the store and
\* what stays in buffer.
ConsumeChunk(decoder, buffer, value) ==
    LET d == DecodeStream(decoder, value)
        text == buffer \o d.out
        lines == Split(text)
    IN  [decoder |-> d.dec, buffer |-> Last(lines), lines |-> Front(lines)]

\* Mutant of AppendLines: the store is set to the new lines.
ReplaceLines(prev, lines) == lines

\* setLogLines(prev => [...prev, ...lines]): the one append of the Line Store.
AppendLines(prev, lines) == prev \o lines

\* Mutant of FlushBuffer: the fragment is stored even when it is empty.
FlushBufferAlways(buffer) == <<buffer>>

\* The done branch of the read loop: the lines appended at end of stream.
FlushBuffer(buffer) == IF buffer # <<>> THEN <<buffer>> ELSE <<>>

ROW_HEIGHT == 22
\* clientHeight of the log container, and its p-4 padding.
ContainerHeight == 22
Padding == 16

SearchTerms == {<<>>, <<97>>}

\* The cased letters of the model: A-Z, a-z and the Greek sigmas.
IsCased(c) == c \in (65..90) \cup (97..122) \cup {931, 962, 963}

\* toLowerCase on the letters of the model: A-Z map to a-z; capital sigma maps
\* to final sigma when a cased letter precedes it and none follows it, and to
\* small sigma otherwise (no letter of the model is case-ignorable).
ToLowerCase(text) ==
    [i \in 1..Len(text) |->
        IF text[i] >= 65 /\ text[i] <= 90 THEN text[i] + 32
        ELSE IF text[i] = 931
        THEN (IF (i > 1 /\ IsCased(text[i - 1])) /\ ~(i < Len(text) /\ IsCased(text[i + 1]))
              THEN 962 ELSE 963)
        ELSE text[i]]

\* String.prototype.includes
Includes(text, term) ==
    \E k \in 0..(Len(text) - Len(term)) : SubSeq(text, k + 1, k + Len(term)) = term

RECURSIVE FilterFrom(_, _, _)
FilterFrom(lines, term, index) ==
    IF index > Len(lines) THEN <<>>
    ELSE (IF term = <<>> \/ Includes(ToLowerCase(lines[index]), ToLowerCase(term))
          THEN <<[line |-> lines[index], originalIndex |-> index - 1]>>
          ELSE <<>>) \o FilterFrom(lines, term, index + 1)

\* Mutant of filteredLines: the rows are numbered from one.
filteredLinesOneBased ==
    [k \in 1..Len(filteredMemo.value) |->
        [filteredMemo.value[k] EXCEPT !.originalIndex = @ + 1]]

\* filteredLines of the current render (lines 180-187).
filteredLines == filteredMemo.value

\* Mutant of FilterMemo: debouncedSearchTerm is the only dependency.
FilterMemoTermOnly ==
    filteredMemo' =
        IF debouncedSearchTerm' = filteredMemo.deps[2] THEN filteredMemo
        ELSE [deps |-> <<logLines', debouncedSearchTerm'>>,
              value |-> FilterFrom(logLines', debouncedSearchTerm', 1)]

\* useMemo in the render after a handler (lines 180-187): the filter runs
\* again when logLines or debouncedSearchTerm differ from the dependencies of
\* the last computation, and the held value is returned otherwise.
FilterMemo ==
    filteredMemo' =
        IF <<logLines', debouncedSearchTerm'>> = filteredMemo.deps THEN filteredMemo
        ELSE [deps |-> <<logLines', debouncedSearchTerm'>>,
              value |-> FilterFrom(logLines', debouncedSearchTerm', 1)]

\* The scroll range of the log container: its content is the filtered rows
\* (line 289); without rows it shows a message that fills the container and
\* does not scroll.
MaxScroll ==
    LET scrollHeight == Len(filteredLines) * ROW_HEIGHT + 2 * Padding
    IN  IF Len(filteredLines) > 0 /\ scrollHeight > clientHeight
        THEN scrollHeight - clientHeight ELSE 0

\* Mutant of AutoscrollEffect: the scroll after the initial load alone.
AutoscrollEffectInitialOnly(top) ==
    LET ran == <<logLines', status', isLive', isLivePaused'>>
                   # <<logLines, status, isLive, isLivePaused>>
        container == error' = NoError
    IN  IF ran /\ container /\ status' = Finished /\ isInitialLoad /\ Len(logLines') > 0
        THEN scrollTop' = MaxScroll' /\ isInitialLoad' = FALSE
        ELSE scrollTop' = top /\ UNCHANGED isInitialLoad

\* The autoscroll effect (lines 189-205) after a handler that leaves the
\* container at top: it runs when one of its dependencies changed and the
\* container is rendered, and then scrolls to the bottom once after the
\* initial load and whenever tailing is on and not paused.  The scroll event
\* of its assignment finds the container at the bottom, where handleScroll
\* stores the position.
AutoscrollEffect(top) ==
    LET ran == <<logLines', status', isLive', isLivePaused'>>
                   # <<logLines, status, isLive, isLivePaused>>
        container == error' = NoError
    IN  IF ran /\ container /\ status' = Finished /\ isInitialLoad /\ Len(logLines') > 0
        THEN scrollTop' = MaxScroll' /\ isInitialLoad' = FALSE
        ELSE IF ran /\ container /\ isLive' /\ ~isLivePaused'
        THEN scrollTop' = MaxScroll' /\ UNCHANGED isInitialLoad
        ELSE scrollTop' = top /\ UNCHANGED isInitialLoad

\* The dependencies of the tailing effect (line 178); the source prop is the
\* one of the session and names the file, whose bytes are the server's.
TailingDeps == <<isLive, isLivePaused, status, session, source.type, totalBytes>>

\* The id setInterval returns: one that no running interval has.
NewInterval(running) == CHOOSE id \in 1..(Cardinality(running) + 1) : id \notin running

\* Mutant of TailingEffect: the interval is set whatever the status.
TailingEffectAnyStatus ==
    LET cleared == intervals \ {tailingIntervalRef}
    IN  IF TailingDeps' = TailingDeps THEN UNCHANGED timerVars
        ELSE IF isLive' /\ source'.type = "remote"
        THEN /\ tailingIntervalRef' = NewInterval(cleared)
             /\ intervals' = cleared \cup {NewInterval(cleared)}
        ELSE /\ tailingIntervalRef' = tailingIntervalRef
             /\ intervals' = cleared

\* Mutant of TailingEffect: the cleanup leaves the interval running.
TailingEffectNoCleanup ==
    IF TailingDeps' = TailingDeps THEN UNCHANGED timerVars
    ELSE IF isLive' /\ source'.type = "remote" /\ status' \in {Finished, Live, LiveError}
    THEN /\ tailingIntervalRef' = NewInterval(intervals)
         /\ intervals' = intervals \cup {NewInterval(intervals)}
    ELSE UNCHANGED timerVars

\* The tailing effect (lines 166-178), run after a render in which one of its
\* dependencies changed: the cleanup of the previous run clears the interval
\* tailingIntervalRef holds, then the body sets a new one and stores its id
\* when tailing is on for a remote source whose status is 'Stream finished.'
\* or starts with 'Live'.  The ref keeps the id of a cleared interval.
TailingEffect ==
    LET cleared == intervals \ {tailingIntervalRef}
    IN  IF TailingDeps' = TailingDeps THEN UNCHANGED timerVars
        ELSE IF isLive' /\ source'.type = "remote" /\ status' \in {Finished, Live, LiveError}
        THEN /\ tailingIntervalRef' = NewInterval(cleared)
             /\ intervals' = cleared \cup {NewInterval(cleared)}
        ELSE /\ tailingIntervalRef' = tailingIntervalRef
             /\ intervals' = cleared

\* A non-success answer of the server: its status line and its body text.
ServerError == [status |-> "404", statusText |-> "Not Found", text |-> "no such file"]

\* The ways the GET request fails: fetch rejects, the answer is not ok, the
\* answer has no body.
GetFailures == {"rejected", "status", "body"}

\* err.message for a failure of the GET request (lines 79-81).
ErrorMessage(failure) ==
    IF failure = "rejected" THEN <<"Failed to fetch">>
    ELSE IF failure = "status" THEN <<"HTTP error! Status: ", ServerError.status>>
    ELSE <<"Response body is empty.">>

\* The text setError is given in the catch (line 114).
ErrorText(message) ==
    <<"Failed to stream file. This could be a CORS issue, network problem, or the file may not exist. (Details: ">>
        \o message \o <<")">>

\* The effect for a source, up to its first await.
StartValues(src, supported) ==
    IF src.type = "remote"
    THEN [pc |-> "head", fileSize |-> NoSize, status |-> FetchingSize, error |-> NoError]
    ELSE IF supported
    THEN [pc |-> "read", fileSize |-> Len(src.file), status |-> StreamingLocal, error |-> NoError]
    ELSE [pc |-> "end", fileSize |-> Len(src.file), status |-> Errored,
          error |-> ErrorText(<<"Browser doesn't support File System Access API for streaming.">>)]

StartTask(src, supported) ==
    [NewTask(StartValues(src, supported).pc) EXCEPT
        !.body = IF src.type = "local" THEN src.file ELSE <<>>]

\* Mutant of HeadResponse: a HEAD request without a usable size ends the
\* session with an error.
HeadResponseFailsSession(s) ==
    /\ s \in 1..Len(tasks)
    /\ tasks[s].pc = "head"
    /\ \E withSize \in BOOLEAN :
        /\ tasks[s].aborted => ~withSize
        /\ fileSize' = IF withSize THEN Len(sources[s].file) ELSE fileSize
        /\ status' = IF withSize THEN Connecting ELSE Errored
        /\ error' = IF withSize THEN error ELSE ErrorText(<<"Failed to fetch">>)
        /\ tasks' = IF withSize THEN [tasks EXCEPT ![s].pc = "get"]
                    ELSE [tasks EXCEPT ![s] = Returned(tasks[s])]
    /\ UNCHANGED <<sources, logLines, totalBytes, liveVars, searchVars,
                   polls, hidden, clientHeight, appVars>>
    /\ FilterMemo
    /\ TailingEffect
    /\ AutoscrollEffect(scrollTop)

\* The HEAD request settles (lines 69-78): the size is kept when the answer is
\* ok and carries Content-Length; every failure, the abort included, is only
\* logged.  Then the GET request is sent.
HeadResponse(s) ==
    /\ s \in 1..Len(tasks)
    /\ tasks[s].pc = "head"
    /\ \E withSize \in BOOLEAN :
        /\ tasks[s].aborted => ~withSize
        /\ fileSize' = IF withSize THEN Len(sources[s].file) ELSE fileSize
    /\ status' = Connecting
    /\ tasks' = [tasks EXCEPT ![s].pc = "get"]
    /\ UNCHANGED <<sources, logLines, totalBytes, error, liveVars, searchVars,
                   polls, hidden, clientHeight, appVars>>
    /\ FilterMemo
    /\ TailingEffect
    /\ AutoscrollEffect(scrollTop)

\* The GET request is rejected or answers without a usable body (lines 79-81,
\* 111-119).
GetFailsWith(s, failure) ==
    /\ s \in 1..Len(tasks)
    /\ tasks[s].pc = "get"
    /\ tasks' = [tasks EXCEPT ![s] = Returned(tasks[s])]
    /\ \/ /\ tasks[s].aborted
          /\ failure = "rejected"
          /\ status' = Cancelled
          /\ UNCHANGED error
       \/ /\ ~tasks[s].aborted
          /\ error' = ErrorText(ErrorMessage(failure))
          /\ status' = Errored
    /\ UNCHANGED <<sources, logLines, totalBytes, fileSize, liveVars, searchVars,
                   polls, hidden, clientHeight, appVars>>
    /\ FilterMemo
    /\ TailingEffect
    /\ AutoscrollEffect(scrollTop)

GetFails(s) == \E failure \in GetFailures : GetFailsWith(s, failure)

\* The GET request answers ok with a body: the reader is taken (lines 82-83).
GetResponse(s) ==
    /\ s \in 1..Len(tasks)
    /\ tasks[s].pc = "get"
    /\ ~tasks[s].aborted
    /\ tasks' = [tasks EXCEPT ![s].pc = "read", ![s].body = sources[s].file]
    /\ status' = StreamingRemote
    /\ UNCHANGED <<sources, logLines, totalBytes, fileSize, error, liveVars, searchVars,
                   polls, hidden, clientHeight, appVars>>
    /\ FilterMemo
    /\ TailingEffect
    /\ AutoscrollEffect(scrollTop)

\* A read of the reader can deliver: the signal reaches only the body of a
\* fetch, the reader of a local file never sees it (line 91).
CanRead(s) ==
    /\ s \in 1..Len(tasks)
    /\ tasks[s].pc = "read"
    /\ sources[s].type = "remote" => ~tasks[s].aborted

\* reader.read() delivers a chunk (lines 104-109).
ReadChunk(s) ==
    /\ CanRead(s)
    /\ \E n \in 0..(Len(tasks[s].body) - tasks[s].pos) :
        LET value == SubSeq(tasks[s].body, tasks[s].pos + 1, tasks[s].pos + n)
            r == ConsumeChunk(tasks[s].decoder, tasks[s].buffer, value)
        IN  /\ totalBytes' = totalBytes + ByteLength(value)
            /\ logLines' = AppendLines(logLines, r.lines)
            /\ tasks' = [tasks EXCEPT ![s].pos = tasks[s].pos + n,
                                      ![s].decoder = r.decoder,
                                      ![s].buffer = r.buffer]
    /\ UNCHANGED <<sources, fileSize, status, error, liveVars, searchVars,
                   polls, hidden, clientHeight, appVars>>
    /\ FilterMemo
    /\ TailingEffect
    /\ AutoscrollEffect(scrollTop)

\* reader.read() reports done (lines 99-103).
ReadDone(s) ==
    /\ CanRead(s)
    /\ tasks[s].pos = Len(tasks[s].body)
    /\ logLines' = AppendLines(logLines, FlushBuffer(tasks[s].buffer))
    /\ status' = Finished
    /\ tasks' = [tasks EXCEPT ![s] = Returned(tasks[s])]
    /\ UNCHANGED <<sources, totalBytes, fileSize, error, liveVars, searchVars,
                   polls, hidden, clientHeight, appVars>>
    /\ FilterMemo
    /\ TailingEffect
    /\ AutoscrollEffect(scrollTop)

\* reader.read() is rejected (lines 111-119): with AbortError when the signal
\* of a fetch was aborted, with another error when the transport or the file
\* read fails.
ReadFails(s) ==
    /\ s \in 1..Len(tasks)
    /\ tasks[s].pc = "read"
    /\ tasks' = [tasks EXCEPT ![s] = Returned(tasks[s])]
    /\ \/ /\ sources[s].type = "remote" /\ tasks[s].aborted
          /\ status' = Cancelled
          /\ UNCHANGED error
       \/ /\ CanRead(s)
          /\ error' = ErrorText(<<"network error">>)
          /\ status' = Errored
    /\ UNCHANGED <<sources, logLines, totalBytes, fileSize, liveVars, searchVars,
                   polls, hidden, clientHeight, appVars>>
    /\ FilterMemo
    /\ TailingEffect
    /\ AutoscrollEffect(scrollTop)

StreamStep(s) ==
    \/ HeadResponse(s)
    \/ GetFails(s)
    \/ GetResponse(s)
    \/ ReadChunk(s)
    \/ ReadDone(s)
    \/ ReadFails(s)

\* The Cancel button (lines 215-217, 390-399): shown while isLoading, it
\* aborts the controller of the current run of the streaming effect.
handleCancelStream ==
    /\ isLoading
    /\ tasks' = [tasks EXCEPT ![session].aborted = TRUE]
    /\ UNCHANGED <<sources, streamVars, liveVars, searchVars, polls, hidden, clientHeight, appVars>>
    /\ FilterMemo
    /\ TailingEffect
    /\ AutoscrollEffect(scrollTop)

\* The source prop changes (lines 49-127): the cleanup of the streaming effect
\* aborts the previous controller, the effect runs again for the new source.
SourceChange(src, supported) ==
    /\ session < MaxSessions
    /\ sources' = Append(sources, src)
    /\ tasks' = Append([tasks EXCEPT ![session].aborted = TRUE], StartTask(src, supported))
    /\ logLines' = <<>>
    /\ totalBytes' = 0
    /\ fileSize' = StartValues(src, supported).fileSize
    /\ error' = StartValues(src, supported).error
    /\ status' = StartValues(src, supported).status
    /\ isLive' = FALSE
    /\ isLivePaused' = FALSE
    /\ UNCHANGED <<searchVars, scrollTop, polls, hidden, clientHeight, appVars>>
    /\ isInitialLoad' = TRUE
    /\ FilterMemo
    /\ TailingEffect

\* ---------------------------------------------- tailLogFile (part_006)

\* String.prototype.trim's white space.
IsWhiteSpace(c) ==
    c \in {9, 10, 11, 12, 13, 32, 160, 5760, 8232, 8233, 8239, 8287, 12288, 65279}
           \cup (8192..8202)

\* l.trim() !== ''
NotBlank(line) == \E i \in 1..Len(line) : ~IsWhiteSpace(line[i])

\* The lines a poll's content adds (lines 151-153).
TailLines(newContent) ==
    LET segments == Split(DecodeAll(newContent))
    IN  SelectSeq(segments, NotBlank)

RemoveAt(q, i) == SubSeq(q, 1, i - 1) \o SubSeq(q, i + 1, Len(q))

\* The Go Live button (lines 400-415).
ToggleLive ==
    /\ source.type = "remote"
    /\ ~isLoading
    /\ isLive' = ~isLive
    /\ UNCHANGED <<sources, tasks, streamVars, isLivePaused, searchVars, polls, hidden, clientHeight, appVars>>
    /\ FilterMemo
    /\ TailingEffect
    /\ AutoscrollEffect(scrollTop)

\* Mutant of TimerTick: tailLogFile does not look at document.hidden.
TimerTickWhenHidden ==
    /\ timerOn
    /\ Len(polls) < MaxPolls
    /\ IF source.type # "remote"
       THEN UNCHANGED <<status, polls>>
       ELSE /\ status' = IF ~isLivePaused THEN Live ELSE status
            /\ polls' = Append(polls, [session |-> session, from |-> totalBytes])
    /\ UNCHANGED <<sources, tasks, logLines, totalBytes, fileSize, error, liveVars,
                   searchVars, hidden, clientHeight, appVars>>
    /\ FilterMemo
    /\ TailingEffect
    /\ AutoscrollEffect(scrollTop)

\* The interval fires and calls tailLogFile, up to its fetch (lines 131-142).
TimerTick ==
    /\ timerOn
    /\ Len(polls) < MaxPolls
    /\ IF source.type # "remote" \/ hidden
       THEN UNCHANGED <<status, polls>>
       ELSE /\ status' = IF ~isLivePaused THEN Live ELSE status
            /\ polls' = Append(polls, [session |-> session, from |-> totalBytes])
    /\ UNCHANGED <<sources, tasks, logLines, totalBytes, fileSize, error, liveVars,
                   searchVars, hidden, clientHeight, appVars>>
    /\ FilterMemo
    /\ TailingEffect
    /\ AutoscrollEffect(scrollTop)

\* Mutant of PollNoContent: the answer without content is taken for a failure.
PollNoContentAsFailure(i) ==
    /\ i \in 1..Len(polls)
    /\ polls[i].from >= Len(sources[polls[i].session].file)
    /\ polls' = RemoveAt(polls, i)
    /\ status' = LiveError
    /\ isLive' = FALSE
    /\ UNCHANGED <<sources, tasks, logLines, totalBytes, fileSize, error, isLivePaused,
                   searchVars, hidden, clientHeight, appVars>>
    /\ FilterMemo
    /\ TailingEffect
    /\ AutoscrollEffect(scrollTop)

\* The range request is answered 416 (line 144), or with an empty body.
PollNoContent(i) ==
    /\ i \in 1..Len(polls)
    /\ polls[i].from >= Len(sources[polls[i].session].file)
    /\ polls' = RemoveAt(polls, i)
    /\ UNCHANGED <<sources, tasks, streamVars, liveVars, searchVars, hidden, clientHeight, appVars>>
    /\ FilterMemo
    /\ TailingEffect
    /\ AutoscrollEffect(scrollTop)

\* The range request is answered 206 with the bytes from the offset on, or
\* 200 with the whole file by a server that ignores Range (lines 145-158).
PollContent(i) ==
    /\ i \in 1..Len(polls)
    /\ \E code \in {206, 200} :
        LET file == sources[polls[i].session].file
            newContent == IF code = 206 THEN SubSeq(file, polls[i].from + 1, Len(file))
                          ELSE file
        IN  /\ code = 206 => polls[i].from < Len(file)
            /\ Len(newContent) > 0
            /\ totalBytes + Len(newContent) <= MaxTotalBytes
            /\ logLines' = AppendLines(logLines, TailLines(newContent))
            /\ totalBytes' = totalBytes + ByteLength(newContent)
    /\ polls' = RemoveAt(polls, i)
    /\ UNCHANGED <<sources, tasks, fileSize, status, error, liveVars, searchVars,
                   hidden, clientHeight, appVars>>
    /\ FilterMemo
    /\ TailingEffect
    /\ AutoscrollEffect(scrollTop)

\* Mutant of PollFails: the failure is shown and tailing goes on.
PollFailsKeepsTailing(i) ==
    /\ i \in 1..Len(polls)
    /\ polls' = RemoveAt(polls, i)
    /\ status' = LiveError
    /\ UNCHANGED <<sources, tasks, logLines, totalBytes, fileSize, error, liveVars,
                   searchVars, hidden, clientHeight, appVars>>
    /\ FilterMemo
    /\ TailingEffect
    /\ AutoscrollEffect(scrollTop)

\* The range request fails: the network, or a status other than 200, 206 and
\* 416 (lines 145-147, 159-163).
PollFails(i) ==
    /\ i \in 1..Len(polls)
    /\ polls' = RemoveAt(polls, i)
    /\ status' = LiveError
    /\ isLive' = FALSE
    /\ UNCHANGED <<sources, tasks, logLines, totalBytes, fileSize, error, isLivePaused,
                   searchVars, hidden, clientHeight, appVars>>
    /\ FilterMemo
    /\ TailingEffect
    /\ AutoscrollEffect(scrollTop)

\* The server appends a byte to the file of a remote source.
FileGrows(s, b) ==
    /\ s \in 1..Len(sources)
    /\ sources[s].type = "remote"
    /\ Len(sources[s].file) < MaxLen
    /\ sources' = [sources EXCEPT ![s].file = Append(sources[s].file, b)]
    /\ UNCHANGED <<tasks, streamVars, liveVars, searchVars, scrollTop, timerVars, polls,
                   hidden, isInitialLoad, clientHeight, appVars>>
    /\ FilterMemo

\* The page is hidden or shown again (document.hidden).
VisibilityChange ==
    /\ hidden' = ~hidden
    /\ UNCHANGED <<sources, tasks, streamVars, liveVars, searchVars, scrollTop, timerVars,
                   polls, isInitialLoad, clientHeight, appVars>>
    /\ FilterMemo

\* ------------------------------------------------- search and scroll

\* Mutant of SearchInput: the effect's cleanup does not clear the timeout.
SearchInputNoCleanup(term) ==
    /\ ~(isLoading \/ error # NoError \/ Len(logLines) = 0)
    /\ term # searchTerm
    /\ Len(debounceTimers) < 2
    /\ searchTerm' = term
    /\ isSearching' = TRUE
    /\ debounceTimers' = Append(debounceTimers, term)
    /\ UNCHANGED <<sources, tasks, streamVars, liveVars, debouncedSearchTerm, scrollTop,
                   timerVars, polls, hidden, isInitialLoad, clientHeight, appVars>>
    /\ FilterMemo

\* The search input changes (lines 35-46, 418-426): the cleanup of the
\* debounce effect clears the timeout of its previous run, the newest one
\* when it is still pending; the effect sets isSearching and a new timeout
\* whose closure holds the new term.
SearchInput(term) ==
    /\ ~(isLoading \/ error # NoError \/ Len(logLines) = 0)
    /\ term # searchTerm
    /\ searchTerm' = term
    /\ isSearching' = TRUE
    /\ debounceTimers' = Append(SubSeq(debounceTimers, 1, Len(debounceTimers) - 1), term)
    /\ UNCHANGED <<sources, tasks, streamVars, liveVars, debouncedSearchTerm, scrollTop,
                   timerVars, polls, hidden, isInitialLoad, clientHeight, appVars>>
    /\ FilterMemo

\* Mutant of DebounceFires: the filter writes its matches into the Line Store.
DebounceFiresTrimsStore ==
    /\ debouncePending
    /\ debouncedSearchTerm' = Head(debounceTimers)
    /\ isSearching' = FALSE
    /\ debounceTimers' = Tail(debounceTimers)
    /\ logLines' = LET rows == FilterFrom(logLines, Head(debounceTimers), 1)
                   IN  [k \in 1..Len(rows) |-> rows[k].line]
    /\ UNCHANGED <<sources, tasks, totalBytes, fileSize, status, error, liveVars, searchTerm,
                   scrollTop, timerVars, polls, hidden, isInitialLoad, clientHeight, appVars>>
    /\ FilterMemo

\* Mutant of DebounceFires: the flag is left set.
DebounceFiresKeepsFlag ==
    /\ debouncePending
    /\ debouncedSearchTerm' = Head(debounceTimers)
    /\ debounceTimers' = Tail(debounceTimers)
    /\ UNCHANGED <<sources, tasks, streamVars, liveVars, searchTerm, isSearching, scrollTop,
                   timerVars, polls, hidden, isInitialLoad, clientHeight, appVars>>
    /\ FilterMemo

\* The oldest pending debounce timeout fires (lines 37-40) with the term of
\* its closure.
DebounceFires ==
    /\ debouncePending
    /\ debouncedSearchTerm' = Head(debounceTimers)
    /\ isSearching' = FALSE
    /\ debounceTimers' = Tail(debounceTimers)
    /\ UNCHANGED <<sources, tasks, streamVars, liveVars, searchTerm, scrollTop, timerVars,
                   polls, hidden, isInitialLoad, clientHeight, appVars>>
    /\ FilterMemo

\* Mutant of handleScroll: a scroll event pauses and never resumes.
handleScrollOnlyPauses(position) ==
    /\ error = NoError
    /\ position \in 0..MaxScroll
    /\ position # scrollTop
    /\ isLivePaused' = IF isLive /\ ~(MaxScroll - position < 1) THEN TRUE ELSE isLivePaused
    /\ UNCHANGED <<sources, tasks, streamVars, isLive, searchVars, polls, hidden, clientHeight, appVars>>
    /\ FilterMemo
    /\ TailingEffect
    /\ AutoscrollEffect(position)

\* The log container is scrolled to another position (lines 223-238).
handleScroll(position) ==
    /\ error = NoError
    /\ position \in 0..MaxScroll
    /\ position # scrollTop
    /\ isLivePaused' = IF isLive THEN ~(MaxScroll - position < 1) ELSE isLivePaused
    /\ UNCHANGED <<sources, tasks, streamVars, isLive, searchVars, polls, hidden, clientHeight, appVars>>
    /\ FilterMemo
    /\ TailingEffect
    /\ AutoscrollEffect(position)

\* The Resume Tailing button (lines 240-245, 457-466).
resumeLiveScroll ==
    /\ error = NoError
    /\ isLive /\ isLivePaused
    /\ isLivePaused' = FALSE
    /\ UNCHANGED <<sources, tasks, streamVars, isLive, searchVars, polls, hidden, clientHeight, appVars>>
    /\ FilterMemo
    /\ TailingEffect
    /\ AutoscrollEffect(MaxScroll)

\* ------------------- streamLogFile of the viewers that collect allLines
\* (src/components/LogViewer.tsx, the capped viewer; src/unnamed/part_005,
\* the local/remote viewer)

\* MAX_DISPLAY_LINES, 5000 in the source, scaled to the files of the model.
MAX_DISPLAY_LINES == 2
\* The local/remote viewer trims nothing.
NoCap == -1

\* Mutant of Trim: the first lines are kept.
TrimKeepsFirst(allLines, cap) ==
    IF cap # NoCap /\ Len(allLines) > cap THEN SubSeq(allLines, 1, cap) ELSE allLines

\* allLines.slice(allLines.length - MAX_DISPLAY_LINES) when it is longer.
Trim(allLines, cap) ==
    IF cap # NoCap /\ Len(allLines) > cap
    THEN SubSeq(allLines, Len(allLines) - cap + 1, Len(allLines))
    ELSE allLines

\* The autoscroll effect of these viewers: once after the initial load.
Collect_AutoscrollEffect(top) ==
    LET ran == <<logLines', status'>> # <<logLines, status>>
        container == error' = NoError
    IN  IF ran /\ container /\ status' = Finished /\ isInitialLoad /\ Len(logLines') > 0
        THEN scrollTop' = MaxScroll' /\ isInitialLoad' = FALSE
        ELSE scrollTop' = top /\ UNCHANGED isInitialLoad

\* err.message for a failure of the GET request: response.text() is awaited
\* for an answer that is not ok, and replaced by a fixed text when it rejects.
Collect_ErrorMessage(failure, textRead) ==
    IF failure = "rejected" THEN <<"Failed to fetch">>
    ELSE IF failure = "status"
    THEN <<"HTTP error! Status: ", ServerError.status, " ", ServerError.statusText,
           ". Server says: ",
           IF textRead THEN ServerError.text
           ELSE "Could not retrieve error details from server.">>
    ELSE <<"Response body is empty.">>

\* The text setError is given in the catch of these viewers.
Collect_ErrorText(message) ==
    <<"Failed to stream file. This is likely a CORS issue, a network problem, or the file may not exist. Please check the browser console for details. Error: ">>
        \o message

\* A GET that does not answer ok reads the response text into the error.
CollectGetFails(s) ==
    /\ s \in 1..Len(tasks)
    /\ tasks[s].pc = "get"
    /\ tasks' = [tasks EXCEPT ![s] = Returned(tasks[s])]
    /\ \/ /\ tasks[s].aborted
          /\ status' = Cancelled
          /\ UNCHANGED error
       \/ /\ ~tasks[s].aborted
          /\ \E failure \in GetFailures, textRead \in BOOLEAN :
                error' = Collect_ErrorText(Collect_ErrorMessage(failure, textRead))
          /\ status' = Errored
    /\ UNCHANGED <<sources, logLines, totalBytes, fileSize, liveVars, searchVars,
                   timerVars, polls, hidden, clientHeight, appVars>>
    /\ FilterMemo
    /\ Collect_AutoscrollEffect(scrollTop)

\* reader.read() delivers a chunk: the lines go to the local allLines, the
\* Line Store is not written.
CollectChunk(s, cap) ==
    /\ CanRead(s)
    /\ \E n \in 0..(Len(tasks[s].body) - tasks[s].pos) :
        LET value == SubSeq(tasks[s].body, tasks[s].pos + 1, tasks[s].pos + n)
            r == ConsumeChunk(tasks[s].decoder, tasks[s].buffer, value)
        IN  /\ totalBytes' = totalBytes + ByteLength(value)
            /\ tasks' = [tasks EXCEPT ![s].pos = tasks[s].pos + n,
                                      ![s].decoder = r.decoder,
                                      ![s].buffer = r.buffer,
                                      ![s].allLines = Trim(tasks[s].allLines \o r.lines, cap)]
    /\ UNCHANGED <<sources, logLines, fileSize, status, error, liveVars, searchVars,
                   timerVars, polls, hidden, clientHeight, appVars>>
    /\ FilterMemo
    /\ Collect_AutoscrollEffect(scrollTop)

\* reader.read() reports done: setLogLines(allLines).
CollectDone(s, cap) ==
    /\ CanRead(s)
    /\ tasks[s].pos = Len(tasks[s].body)
    /\ logLines' = Trim(tasks[s].allLines \o FlushBuffer(tasks[s].buffer), cap)
    /\ status' = Finished
    /\ tasks' = [tasks EXCEPT ![s] = Returned(tasks[s])]
    /\ UNCHANGED <<sources, totalBytes, fileSize, error, liveVars, searchVars,
                   timerVars, polls, hidden, clientHeight, appVars>>
    /\ FilterMemo
    /\ Collect_AutoscrollEffect(scrollTop)

\* handleScroll of these viewers: setScrollTop alone.
Collect_handleScroll(position) ==
    /\ error = NoError
    /\ position \in 0..MaxScroll
    /\ position # scrollTop
    /\ scrollTop' = position
    /\ UNCHANGED <<sources, tasks, streamVars, liveVars, searchVars, timerVars, polls,
                   hidden, isInitialLoad, clientHeight, appVars>>
    /\ FilterMemo

\* The capped viewer (src/components/LogViewer.tsx, lines 45-122).
Capped_GetResponse(s) == GetResponse(s)
Capped_ReadChunk(s) == CollectChunk(s, MAX_DISPLAY_LINES)
Capped_ReadDone(s) == CollectDone(s, MAX_DISPLAY_LINES)
Capped_ReadFails(s) == ReadFails(s)

\* The local/remote viewer (src/unnamed/part_005, lines 45-154).
Plain_HeadResponse(s) == HeadResponse(s)
Plain_GetResponse(s) == GetResponse(s)
Plain_ReadChunk(s) == CollectChunk(s, NoCap)
Plain_ReadDone(s) == CollectDone(s, NoCap)
Plain_ReadFails(s) == ReadFails(s)

\* ------------------------------------------------ the base location

\* Base locations, as their characters: a log server, the empty default of
\* the App, a location of another scheme and a relative path.
ServerUrl == <<"h", "t", "t", "p", ":", "/", "/", "s">>
BaseUrls == {ServerUrl, <<>>, <<"f", "t", "p", ":", "/", "/", "s">>, <<"/", "s">>}

\* String.prototype.startsWith
StartsWith(text, prefix) == IsPrefix(prefix, text)

InvalidUrlFormat == "Error: Invalid URL format. It must start with http:// or https://"
CouldNotFetch == "Error: Could not fetch file list"

\* fetchLogFiles up to its fetch (part_000, lines 13-21): a base location that
\* does not start with http is answered at once with the error entry.
fetchLogFiles_Call ==
    /\ listing.pc = "idle"
    /\ listing' = IF ~StartsWith(logServerUrl, <<"h", "t", "t", "p">>)
                  THEN [pc |-> "done", files |-> <<InvalidUrlFormat>>]
                  ELSE [pc |-> "fetch", files |-> <<>>]
    /\ UNCHANGED <<sources, tasks, streamVars, liveVars, searchVars, scrollTop, timerVars,
                   polls, hidden, isInitialLoad, clientHeight, filteredMemo, logServerUrl>>

\* The fetch of the directory index settles (part_000, lines 21-65): the names
\* of its links, or the error entry of the catch.
fetchLogFiles_Response ==
    /\ listing.pc = "fetch"
    /\ \E files \in {<<>>, <<"a.log">>, <<"a.log", "b.log">>, <<CouldNotFetch>>} :
          listing' = [pc |-> "done", files |-> files]
    /\ UNCHANGED <<sources, tasks, streamVars, liveVars, searchVars, scrollTop, timerVars,
                   polls, hidden, isInitialLoad, clientHeight, filteredMemo, logServerUrl>>

\* ------------------------------------------------------ specifications

\* The viewer right after it is mounted with a source: state as constructed,
\* then the effects of the first render.
MountedAt(url, src, task, v) ==
        /\ logServerUrl = url
        /\ listing = [pc |-> "idle", files |-> <<>>]
        /\ sources = <<src>>
        /\ tasks = <<task>>
        /\ logLines = <<>>
        /\ totalBytes = 0
        /\ fileSize = v.fileSize
        /\ status = v.status
        /\ error = v.error
        /\ isLive = FALSE
        /\ isLivePaused = FALSE
        /\ searchTerm = <<>>
        /\ debouncedSearchTerm = <<>>
        /\ isSearching = TRUE
        /\ debounceTimers = <<<<>>>>
        /\ scrollTop = 0
        /\ tailingIntervalRef = NoInterval
        /\ intervals = {}
        /\ polls = <<>>
        /\ hidden = FALSE
        /\ isInitialLoad = TRUE
        /\ clientHeight = ContainerHeight
        /\ filteredMemo = [deps |-> <<<<>>, <<>>>>, value |-> <<>>]

MountedWith(src, task, v) == MountedAt(ServerUrl, src, task, v)

Mounted(src, supported) ==
    MountedWith(src, StartTask(src, supported), StartValues(src, supported))

\* Line reconstruction alone: one session over every byte stream up to
\* MaxStreamLen, delivered in every chunking.
InitStream ==
    \E type \in {"remote", "local"}, file \in SeqsUpTo(StreamBytes, MaxStreamLen) :
        Mounted([type |-> type, file |-> file], TRUE)

NextStream == StreamStep(1)

SpecStream == InitStream /\ [][NextStream]_vars

Sources == {[type |-> t, file |-> f] : t \in {"remote", "local"},
                                       f \in SeqsUpTo(FileBytes, MaxLen)}

\* The live-tailing viewer, mounted with any source.
Init == \E src \in Sources, supported \in BOOLEAN : Mounted(src, supported)

Next ==
    \/ \E s \in 1..MaxSessions : StreamStep(s)
    \/ handleCancelStream
    \/ ToggleLive
    \/ TimerTick
    \/ \E i \in 1..MaxPolls : PollNoContent(i) \/ PollContent(i) \/ PollFails(i)
    \/ \E s \in 1..MaxSessions, b \in FileBytes : FileGrows(s, b)
    \/ VisibilityChange
    \/ \E term \in SearchTerms : SearchInput(term)
    \/ DebounceFires
    \/ \E position \in {0, ROW_HEIGHT, MaxScroll} : handleScroll(position)
    \/ resumeLiveScroll

Spec == Init /\ [][Next]_vars

\* The viewer over a change of its source: the tasks and range requests of the
\* previous session run on beside the new session.
NextSessions ==
    \/ \E s \in 1..MaxSessions : StreamStep(s)
    \/ handleCancelStream
    \/ \E src \in Sources, supported \in BOOLEAN : SourceChange(src, supported)
    \/ ToggleLive
    \/ TimerTick
    \/ \E i \in 1..MaxPolls : PollNoContent(i) \/ PollContent(i) \/ PollFails(i)

SpecSessions == Init /\ [][NextSessions]_vars

\* The capped viewer, mounted with a file of its server: the effect up to the
\* GET request.
InitCapped ==
    \E file \in SeqsUpTo(FileBytes, MaxCappedLen) :
        MountedWith([type |-> "remote", file |-> file], NewTask("get"),
                    [fileSize |-> NoSize, status |-> Connecting, error |-> NoError])

NextCapped ==
    \/ CollectGetFails(1)
    \/ Capped_GetResponse(1)
    \/ Capped_ReadChunk(1)
    \/ Capped_ReadDone(1)
    \/ Capped_ReadFails(1)
    \/ handleCancelStream
    \/ \E term \in SearchTerms : SearchInput(term)
    \/ DebounceFires
    \/ \E position \in {0, ROW_HEIGHT, MaxScroll} : Collect_handleScroll(position)

SpecCapped == InitCapped /\ [][NextCapped]_vars

\* The local/remote viewer, mounted with any source.
NextPlain ==
    \/ Plain_HeadResponse(1)
    \/ CollectGetFails(1)
    \/ Plain_GetResponse(1)
    \/ Plain_ReadChunk(1)
    \/ Plain_ReadDone(1)
    \/ Plain_ReadFails(1)
    \/ handleCancelStream
    \/ \E term \in SearchTerms : SearchInput(term)
    \/ DebounceFires
    \/ \E position \in {0, ROW_HEIGHT, MaxScroll} : Collect_handleScroll(position)

SpecPlain == Init /\ [][NextPlain]_vars

\* ---------------------------------------------- line reconstruction

\* The bytes the current session's stream has delivered so far.
Consumed == SubSeq(tasks[session].body, 1, tasks[session].pos)

NumTerminators(bytes) == Cardinality({i \in 1..Len(bytes) : bytes[i] = NL})

\* The lines the read loop stores for a stream delivered as one single chunk
\* followed by done.
SingleChunkLines(bytes) ==
    LET r == ConsumeChunk(NewDecoder, <<>>, bytes)
    IN  r.lines \o FlushBuffer(r.buffer)

\* TextEncoder: the UTF-8 bytes of a text.
EncodeCodePoint(cp) ==
    IF cp < 128 THEN <<cp>>
    ELSE IF cp < 2048 THEN <<192 + (cp \div 64), 128 + (cp % 64)>>
    ELSE IF cp < 65536 THEN <<224 + (cp \div 4096), 128 + ((cp \div 64) % 64), 128 + (cp % 64)>>
    ELSE <<240 + (cp \div 262144), 128 + ((cp \div 4096) % 64), 128 + ((cp \div 64) % 64),
           128 + (cp % 64)>>

RECURSIVE Encode(_)
Encode(text) == IF text = <<>> THEN <<>> ELSE EncodeCodePoint(Head(text)) \o Encode(Tail(text))

\* The stored lines in index order, one terminator after each line.
RECURSIVE JoinTerminated(_)
JoinTerminated(lines) ==
    IF lines = <<>> THEN <<>> ELSE Head(lines) \o <<NL>> \o JoinTerminated(Tail(lines))

\* The same, the final terminator omitted.
JoinSeparated(lines) ==
    IF lines = <<>> THEN <<>> ELSE Front(JoinTerminated(lines))

EndsWithTerminator(bytes) == bytes # <<>> /\ Last(bytes) = NL

Rejoined(bytes, lines) ==
    IF EndsWithTerminator(bytes) THEN Encode(JoinTerminated(lines))
    ELSE Encode(JoinSeparated(lines))

IsContinuation(b) == b >= 128 /\ b <= 191

\* Well-formed UTF-8 (RFC 3629), recognised on the bytes.
RECURSIVE WellFormedUtf8(_)
WellFormedUtf8(bytes) ==
    IF bytes = <<>> THEN TRUE
    ELSE LET b == Head(bytes)
             n == IF b <= 127 THEN 1
                  ELSE IF b >= 194 /\ b <= 223 THEN 2
                  ELSE IF b >= 224 /\ b <= 239 THEN 3
                  ELSE IF b >= 240 /\ b <= 244 THEN 4
                  ELSE 0
         IN  /\ n > 0
             /\ Len(bytes) >= n
             /\ \A i \in 2..n : IsContinuation(bytes[i])
             /\ b = 224 => bytes[2] >= 160
             /\ b = 237 => bytes[2] <= 159
             /\ b = 240 => bytes[2] >= 144
             /\ b = 244 => bytes[2] <= 143
             /\ WellFormedUtf8(SubSeq(bytes, n + 1, Len(bytes)))

StartsWithBOM(bytes) == Len(bytes) >= 3 /\ SubSeq(bytes, 1, 3) = <<239, 187, 191>>

\* C1: whatever the chunking of the stream, once it has ended the Line Store
\* holds the lines that the same bytes delivered as one single chunk give.
C1_ChunkBoundaryInvariance ==
    status = Finished => logLines = SingleChunkLines(source.file)

\* A stream of two lines, a multi-byte character in the unterminated last one,
\* has ended.
C1_Witness ==
    /\ status = Finished
    /\ Len(logLines) = 2
    /\ Last(logLines) = <<233>>

\* C2: while the stream is read totalBytes is the number of bytes delivered so
\* far (every chunk adds its byte length), and it equals the stream's length
\* once the stream is Finished.
C2_TotalBytesIsByteCount ==
    /\ tasks[session].pc = "read" => totalBytes = tasks[session].pos
    /\ status = Finished => totalBytes = Len(source.file)

\* A stream holding a multi-byte character has ended.
C2_Witness ==
    /\ status = Finished
    /\ totalBytes = MaxStreamLen
    /\ \E i \in 1..Len(source.file) : source.file[i] > 127

\* C3: before the end of the stream the Line Store holds one line per
\* terminator received and never the pending fragment; the step that reports
\* done appends the fragment as one line when it is non-empty and nothing
\* otherwise; a step that ends the stream otherwise appends nothing.
C3_FragmentOnlyAtEnd ==
    /\ [](tasks[session].pc = "read" =>
            /\ Len(logLines) = NumTerminators(Consumed)
            /\ \A i \in 1..Len(tasks[session].buffer) : tasks[session].buffer[i] # NL)
    /\ [][tasks[session].pc = "read" /\ tasks'[session].pc = "end" =>
            logLines' = IF status' = Finished /\ tasks[session].buffer # <<>>
                        THEN Append(logLines, tasks[session].buffer)
                        ELSE logLines]_vars

\* A fragment is pending behind a stored line, the stream not yet ended.
C3_Witness ==
    /\ tasks[session].pc = "read"
    /\ tasks[session].buffer # <<>>
    /\ Len(logLines) >= 1

\* C4: a stream of zero bytes ends Finished with an empty Line Store.
C4_EmptyStreamNoLines ==
    status = Finished /\ source.file = <<>> => logLines = <<>>

\* A stream of zero bytes has ended.
C4_Witness ==
    /\ status = Finished
    /\ source.file = <<>>
    /\ totalBytes = 0

\* C5 as claimed: the stored lines of every fully consumed stream, rejoined
\* with terminators, are the stream's bytes.
C5_RoundTripEveryStream ==
    status = Finished => Rejoined(source.file, logLines) = source.file

\* C5 amended: the round trip holds for every stream that is well-formed
\* UTF-8 and does not open with a byte order mark.
C5_RoundTripWellFormed ==
    status = Finished /\ WellFormedUtf8(source.file) /\ ~StartsWithBOM(source.file) =>
        Rejoined(source.file, logLines) = source.file

\* A well-formed stream with a multi-byte character between two terminators
\* has ended.
C5_Witness ==
    /\ status = Finished
    /\ WellFormedUtf8(source.file)
    /\ \E i \in 1..Len(source.file) : source.file[i] > 127
    /\ EndsWithTerminator(source.file)
    /\ Len(logLines) = 2

\* ------------------------------------------------ store and sessions

\* C6: within one session every step leaves the previous contents of the Line
\* Store as a prefix of the new contents.
C6_AppendOnly ==
    [][session' = session => IsPrefix(logLines, logLines')]_vars

\* Tailing has appended to the lines of the initial stream: the store holds
\* more lines than one pass over the file gives.
C6_Witness ==
    /\ status = Live
    /\ Len(logLines) > NumTerminators(source.file) + 1
    /\ debouncedSearchTerm # <<>>

\* C7 as claimed: once the user has cancelled the current session's stream the
\* Line Store keeps the lines it held, and the stream ends Cancelled.
C7_CancelKeepsLines ==
    [][tasks[session].aborted /\ session' = session =>
            /\ logLines' = logLines
            /\ tasks[session].pc # "end" /\ tasks'[session].pc = "end" =>
                   status' = Cancelled]_vars

\* C9 as claimed: a read that is pending when the signal is aborted delivers
\* nothing more: no append, no byte counted, no Finished.
C9_AbortEndsRead ==
    [][tasks[session].pc = "read" /\ tasks[session].aborted /\ session' = session =>
            /\ logLines' = logLines
            /\ totalBytes' = totalBytes
            /\ status' # Finished
            /\ tasks'[session].pc = "read" \/ status' = Cancelled]_vars

\* C10 as claimed: a step that changes the Line Store or totalBytes of the
\* current session is a step of that session's own stream task or the answer
\* to one of its own range requests.
C10_NoLineFromPreviousSource ==
    [][session' = session /\ (logLines' # logLines \/ totalBytes' # totalBytes) =>
            \/ tasks'[session] # tasks[session]
            \/ \E i \in 1..Len(polls) :
                   polls[i].session = session /\ polls' = RemoveAt(polls, i)]_vars

\* C8 as claimed: in the viewers that collect allLines, when the stream ends
\* Cancelled or Errored the Line Store holds the lines reconstructed from the
\* chunks received until then.
C8_PartialLinesRetained ==
    [][tasks[session].pc = "read" /\ status' \in {Cancelled, Errored} =>
            logLines' = tasks[session].allLines]_vars

\* --------------------------------------------------------- tailing

\* C11 as claimed: once the status label reads Cancelled or Errored, no step
\* of the same session changes what the label reads.
C11_TerminalLabelAbsorbing ==
    [][session' = session /\ shownStatus \in {Cancelled, Errored} =>
            shownStatus' = shownStatus]_vars

C13_NoContentIsNoOp ==
    [][(\E i \in 1..MaxPolls : PollNoContent(i)) =>
            /\ logLines' = logLines
            /\ totalBytes' = totalBytes
            /\ isLive' = isLive
            /\ timerOn' = timerOn
            /\ status' = status
            /\ error' = error]_vars

\* Tailing is on and every range request has been answered, none with
\* content: the store still holds the one empty line of the one byte read.
C13_Witness ==
    /\ status = Live
    /\ isLive /\ timerOn
    /\ polls = <<>>
    /\ totalBytes = 1
    /\ logLines = << <<>> >>

\* The last n bytes of the current source: what a range request hands over
\* when it is answered with n bytes (206 from its offset on, or 200 with the
\* whole file).
LastBytes(n) == SubSeq(source.file, Len(source.file) - n + 1, Len(source.file))

\* C14 as claimed: a range request answered with N > 0 bytes that are exactly
\* two terminated lines, whatever the lines hold, adds two lines to the Line
\* Store and N to totalBytes.
C14_TwoTerminatedLinesAddTwo ==
    [][(\E i \in 1..MaxPolls : PollContent(i)) =>
            LET content == LastBytes(totalBytes' - totalBytes)
            IN  /\ totalBytes' > totalBytes
                /\ EndsWithTerminator(content) /\ NumTerminators(content) = 2 =>
                       Len(logLines') = Len(logLines) + 2]_vars

\* C15 as claimed: within a session totalBytes never decreases, every range
\* request starts at the current totalBytes, and totalBytes counts the bytes
\* of the source consumed so far: it never passes the length of the source.
C15_OffsetCountsSourceBytes ==
    /\ [](totalBytes <= Len(source.file))
    /\ [][/\ session' = session => totalBytes' >= totalBytes
          /\ Len(polls') > Len(polls) => Last(polls').from = totalBytes]_vars

\* The Line Store of a session whose initial read took pos bytes and whose
\* bytes from there up to n came in one single answer to a range request.
AsOneAnswer(n) ==
    LET k == tasks[session].pos
    IN  SingleChunkLines(SubSeq(source.file, 1, k))
            \o TailLines(SubSeq(source.file, k + 1, n))

\* C16 as claimed: splitting the bytes the source gained over several answers
\* does not change the lines stored.  When the store is what one answer with
\* the bytes up to totalBytes gives, and a request from totalBytes is answered
\* with all the bytes behind it, the store is what one answer with all the
\* bytes gives.
C16_TailSplitInvariance ==
    [][\A i \in 1..MaxPolls :
            /\ PollContent(i)
            /\ polls[i].from = totalBytes
            /\ totalBytes' = Len(source.file)
            /\ logLines = AsOneAnswer(totalBytes)
            => logLines' = AsOneAnswer(totalBytes')]_vars

\* C17: a failed range request turns tailing off and clears the interval,
\* keeps the Line Store, totalBytes and the null error; a request is sent only
\* while tailing is on, and only the Go Live button turns it on again.
C17_PollFailureStopsTailing ==
    [][/\ (\E i \in 1..MaxPolls : PollFails(i)) =>
              /\ ~isLive' /\ ~timerOn'
              /\ logLines' = logLines
              /\ totalBytes' = totalBytes
              /\ error' = NoError
       /\ Len(polls') > Len(polls) => isLive /\ timerOn
       /\ ~isLive /\ isLive' => ToggleLive]_vars

\* A range request has failed behind a stored line: tailing is off, the lines
\* are kept and no error is set.
C17_Witness ==
    /\ status = LiveError
    /\ ~isLive /\ ~timerOn
    /\ Len(logLines) >= 1
    /\ error = NoError

\* -------------------------------------------------- pause and resume

\* C18: while tailing is on every scroll event sets the pause flag from the
\* position alone: off when the position is less than one pixel from the
\* bottom, on otherwise, whatever the flag was; while tailing is off a scroll
\* event leaves the flag as it was.
C18_ScrollSetsPauseFlag ==
    [][handleScroll(scrollTop') =>
            /\ isLive' = isLive
            /\ isLivePaused' = IF isLive THEN MaxScroll - scrollTop' >= 1
                               ELSE isLivePaused]_vars

\* Tailing is on and a scroll event away from the bottom has paused it.
C18_Witness ==
    /\ isLive /\ isLivePaused
    /\ scrollTop < MaxScroll
    /\ status = Live

\* C19 as claimed: the step that turns tailing on from Finished leaves the
\* viewer Live and not paused, whatever happened earlier in the session.
C19_EnableEntersActive ==
    [][ToggleLive /\ ~isLive /\ status = Finished => isLive' /\ ~isLivePaused']_vars

\* C20 as claimed: the step that turns tailing off clears the interval and
\* brings the status shown back to Finished.
C20_DisableReturnsToFinished ==
    [][ToggleLive /\ isLive /\ status = Live => ~timerOn' /\ shownStatus' = Finished]_vars

\* ------------------------------------------------------- autoscroll

\* C21: an append to the Line Store while tailing is on and not paused leaves
\* the log container scrolled to the bottom of the enlarged content; an append
\* while tailing is paused leaves the scroll position where it was.
C21_AutoscrollOnActiveAppend ==
    [][(Len(logLines') > Len(logLines)) /\ isLive =>
            /\ isLive' = isLive /\ isLivePaused' = isLivePaused
            /\ IF ~isLivePaused THEN scrollTop' = MaxScroll'
                                ELSE scrollTop' = scrollTop]_vars

\* Tailing is on and not paused, a poll has appended lines beyond the initial
\* read and the container is at the bottom of the scrollable rows.
C21_Witness ==
    /\ isLive /\ ~isLivePaused
    /\ totalBytes > tasks[session].pos
    /\ Len(logLines) >= 2
    /\ MaxScroll > 0 /\ scrollTop = MaxScroll

\* C22: while the page is hidden no range request is sent, and an interval
\* tick then changes no state; a tick while the page is visible sends a range
\* request from the offset the viewer holds, which no hidden tick has moved.
C22_HiddenPageSendsNothing ==
    /\ [][hidden => Len(polls') <= Len(polls)]_vars
    /\ [][TimerTick /\ hidden => UNCHANGED vars]_vars
    /\ [][TimerTick /\ ~hidden =>
            polls' = Append(polls, [session |-> session, from |-> totalBytes])]_vars

\* The page is hidden while the interval runs and the file holds bytes the
\* viewer has not read: no request is in flight.
C22_Witness ==
    /\ hidden /\ timerOn /\ isLive
    /\ polls = <<>>
    /\ totalBytes < Len(source.file)

\* ------------------------------------------------------------ filter

\* Bounds of the filter's inputs.
MaxFilterLines == 2
MaxTextLen == 2
\* Letters of the lines (A, a, capital sigma) and of the terms (A, a, small
\* sigma).
LineChars == {65, 97, 931}
TermChars == {65, 97, 963}
FilterTerms == SeqsUpTo(TermChars, MaxTextLen)

\* The viewer after the initial read of a file of these lines, each with its
\* terminator, has finished and the debounce of the mount has fired.
Loaded(type, lines, height) ==
    LET file == Encode(JoinTerminated(lines))
    IN  /\ sources = <<[type |-> type, file |-> file]>>
        /\ tasks = <<[NewTask("end") EXCEPT !.pos = Len(file)]>>
        /\ logLines = lines
        /\ totalBytes = Len(file)
        /\ fileSize = Len(file)
        /\ status = Finished
        /\ error = NoError
        /\ isLive = FALSE
        /\ isLivePaused = FALSE
        /\ searchTerm = <<>>
        /\ debouncedSearchTerm = <<>>
        /\ isSearching = FALSE
        /\ debounceTimers = <<>>
        /\ clientHeight = height
        /\ logServerUrl = ServerUrl
        /\ listing = [pc |-> "idle", files |-> <<>>]
        /\ filteredMemo = [deps |-> <<lines, <<>>>>, value |-> FilterFrom(lines, <<>>, 1)]
        /\ scrollTop = MaxScroll
        /\ tailingIntervalRef = NoInterval
        /\ intervals = {}
        /\ polls = <<>>
        /\ hidden = FALSE
        /\ isInitialLoad = (lines = <<>>)

\* The filter over every Line Store of up to MaxFilterLines lines and every
\* term the user can type.
InitFilter ==
    \E lines \in SeqsUpTo(SeqsUpTo(LineChars, MaxTextLen), MaxFilterLines) :
        Loaded("remote", lines, ContainerHeight)

NextFilter ==
    \/ \E term \in FilterTerms : SearchInput(term)
    \/ DebounceFires

SpecFilter == InitFilter /\ [][NextFilter]_vars

\* The pair the filtered view holds for the i-th line (i from 0).
PairOf(i) == [line |-> logLines[i + 1], originalIndex |-> i]

\* C23: with an empty debounced term the filtered view is as long as the Line
\* Store and its i-th element is the pair of the i-th line.
C23_EmptyTermPassesThrough ==
    debouncedSearchTerm = <<>> =>
        /\ Len(filteredLines) = Len(logLines)
        /\ \A i \in 0..(Len(logLines) - 1) : filteredLines[i + 1] = PairOf(i)

\* A term is being typed over a store of different lines while the debounced
\* term is still empty.
C23_Witness ==
    /\ debouncedSearchTerm = <<>> /\ searchTerm # <<>>
    /\ debouncePending
    /\ Len(logLines) = MaxFilterLines
    /\ logLines[1] # logLines[2]
    /\ Len(filteredLines) = Len(logLines)

\* Letter case set aside: A-Z count as a-z, the capital and the final sigma as
\* the small sigma.
FoldCase(c) ==
    IF c >= 65 /\ c <= 90 THEN c + 32 ELSE IF c \in {931, 962} THEN 963 ELSE c

\* text contains term as a substring, ignoring letter case.
ContainsIgnoringCase(text, term) ==
    \E k \in 0..(Len(text) - Len(term)) :
        \A j \in 1..Len(term) : FoldCase(text[k + j]) = FoldCase(term[j])

\* C24: with a non-empty debounced term the filtered view holds the pair of a
\* line exactly when the line contains the term ignoring letter case, and its
\* pairs are in strictly increasing originalIndex order.
C24_FilterSoundAndComplete ==
    debouncedSearchTerm # <<>> =>
        /\ \A i \in 0..(Len(logLines) - 1) :
              (\E k \in 1..Len(filteredLines) : filteredLines[k] = PairOf(i))
                  <=> ContainsIgnoringCase(logLines[i + 1], debouncedSearchTerm)
        /\ \A k \in 1..Len(filteredLines) :
              /\ filteredLines[k].originalIndex \in 0..(Len(logLines) - 1)
              /\ filteredLines[k] = PairOf(filteredLines[k].originalIndex)
        /\ \A k \in 1..(Len(filteredLines) - 1) :
              filteredLines[k].originalIndex < filteredLines[k + 1].originalIndex

\* ---------------------------------------------------------- debounce

\* C25: a change of the raw search term leaves exactly the new timeout
\* pending, so never more than one is pending, and changes neither the
\* debounced term nor the filtered view; a timeout that fires sets the
\* debounced term to the raw term of that moment.
C25_DebounceKeepsLatest ==
    /\ [](Len(debounceTimers) <= 1)
    /\ [][searchTerm' # searchTerm =>
            /\ debounceTimers' = <<searchTerm'>>
            /\ debouncedSearchTerm' = debouncedSearchTerm
            /\ filteredLines' = filteredLines]_vars
    /\ [][DebounceFires \/ debouncedSearchTerm' # debouncedSearchTerm =>
            debouncedSearchTerm' = searchTerm /\ debounceTimers' = <<>>]_vars

\* The term was cleared after its filter had been applied: the timeout of the
\* cleared input is the only one pending, over a view still filtered by the
\* older term.
C25_Witness ==
    /\ debounceTimers = <<searchTerm>>
    /\ searchTerm = <<>>
    /\ debouncedSearchTerm # <<>>
    /\ Len(filteredLines) < Len(logLines)

\* The viewer with a debounce timeout that fires once its delay has passed.
SpecFair == Spec /\ WF_vars(DebounceFires)

\* C26: isSearching is set in every state in which the raw term differs from
\* the debounced term; the step in which the debounce timeout fires sets the
\* debounced term and clears the flag; a pending debounce leads to a state
\* with the flag cleared and the debounced term equal to the raw term.
C26_SearchingFlag ==
    /\ [](searchTerm # debouncedSearchTerm => isSearching)
    /\ [][DebounceFires => ~isSearching' /\ debouncedSearchTerm' = searchTerm]_vars
    /\ (debouncePending ~> (~isSearching /\ debouncedSearchTerm = searchTerm))

\* The raw term differs from the debounced term and the flag is set.
C26_Witness ==
    /\ searchTerm # debouncedSearchTerm
    /\ isSearching /\ debouncePending
    /\ Len(logLines) > 0

\* C27: in every state the filtered view is the filter applied to the current
\* debounced term and the current Line Store; after an append under a
\* non-empty term it holds the pairs of exactly the lines of the enlarged
\* store that the filter matches.
C27_FilterFresh ==
    /\ [](filteredLines = FilterFrom(logLines, debouncedSearchTerm, 1))
    /\ [][(Len(logLines') > Len(logLines)) /\ debouncedSearchTerm # <<>> =>
            \A i \in 1..Len(logLines') :
                (\E k \in 1..Len(filteredLines') :
                     filteredLines'[k] = [line |-> logLines'[i], originalIndex |-> i - 1])
                <=> Includes(ToLowerCase(logLines'[i]), ToLowerCase(debouncedSearchTerm'))]_vars

\* A poll has appended under the term "a": the store holds a line without the
\* term beside lines with it, and the view shows the matching ones.
C27_Witness ==
    /\ debouncedSearchTerm # <<>>
    /\ totalBytes > tasks[session].pos
    /\ Len(filteredLines) > 0
    /\ Len(filteredLines) < Len(logLines)
    /\ filteredLines[Len(filteredLines)].originalIndex = Len(logLines) - 1

\* ---------------------------------------------------------- viewport

Max(a, b) == IF a >= b THEN a ELSE b
Min(a, b) == IF a <= b THEN a ELSE b

\* Math.floor(a / b) and Math.ceil(a / b) for a >= 0, b > 0.
Floor(a, b) == a \div b
Ceil(a, b) == IF a % b = 0 THEN a \div b ELSE (a \div b) + 1

\* containerHeight (line 248): the clientHeight of the container, 0 while
\* the container is not rendered.
containerHeight == IF error = NoError THEN clientHeight ELSE 0

\* Mutant of StartIndex: the ten rows are added.
StartIndexAhead(top) == Max(0, Floor(top, ROW_HEIGHT) + 10)

\* startIndex (line 249) at a scroll position.
StartIndex(top) == Max(0, Floor(top, ROW_HEIGHT) - 10)

\* Mutant of EndIndex: the quotient is rounded down.
EndIndexFloor(top, height, totalRows) ==
    Min(totalRows, Floor(top + height, ROW_HEIGHT) + 10)

\* endIndex (lines 250-253).
EndIndex(top, height, totalRows) ==
    Min(totalRows, Ceil(top + height, ROW_HEIGHT) + 10)

startIndex == StartIndex(scrollTop)
endIndex == EndIndex(scrollTop, containerHeight, Len(filteredLines))

\* visibleLines (line 255): filteredLines.slice(startIndex, endIndex).
visibleLines ==
    IF startIndex < endIndex THEN SubSeq(filteredLines, startIndex + 1, endIndex) ELSE <<>>

\* Bound of the rows of a loaded file, the distance of the scroll positions
\* tried, and the heights the container is laid out with.
MaxRows == 24
ScrollStep == 7
Heights == {0, ContainerHeight, 55}

\* A file of rows lines of which every eighth, from the first on, is "a" and
\* the others are empty.
RowLines(rows) == [i \in 1..rows |-> IF i % 8 = 1 THEN <<97>> ELSE <<>>]

\* The viewer over a loaded file of up to MaxRows lines: the user scrolls to
\* the bottom and to every ScrollStep-th pixel position, on and off the row
\* grid, and filters the rows.
InitViewport ==
    \E rows \in 0..MaxRows, height \in Heights : Loaded("remote", RowLines(rows), height)

NextViewport ==
    \/ \E position \in {p \in 0..MaxScroll : p % ScrollStep = 0 \/ p = MaxScroll} :
          handleScroll(position)
    \/ \E term \in SearchTerms : SearchInput(term)
    \/ DebounceFires

SpecViewport == InitViewport /\ [][NextViewport]_vars

\* q is the integer part of x / d, and the least integer not below x / d.
IsFloorOf(q, x, d) == q * d <= x /\ x < (q + 1) * d
IsCeilOf(q, x, d) == (q - 1) * d < x /\ x <= q * d

\* C28: in every state startIndex is max(0, floor(scrollTop / 22) - 10) and
\* endIndex is min(totalRows, ceil((scrollTop + containerHeight) / 22) + 10)
\* for the current scrollTop and the current length of the filtered view; for
\* 1000 rows, height 440 and scrollTop 2200 the range is 90 to 130.
C28_ViewportFormula ==
    /\ \E f \in 0..(scrollTop \div 22) :
          /\ IsFloorOf(f, scrollTop, 22)
          /\ startIndex = (IF f - 10 > 0 THEN f - 10 ELSE 0)
    /\ \E c \in 0..((scrollTop + containerHeight) \div 22 + 1) :
          /\ IsCeilOf(c, scrollTop + containerHeight, 22)
          /\ endIndex = (IF c + 10 < Len(filteredLines) THEN c + 10 ELSE Len(filteredLines))
    /\ StartIndex(2200) = 90
    /\ EndIndex(2200, 440, 1000) = 130

\* The container is scrolled to a position off the row grid in the middle of
\* a long view: neither end of the range is clamped.
C28_Witness ==
    /\ scrollTop % ROW_HEIGHT # 0
    /\ containerHeight > 0
    /\ startIndex > 0
    /\ endIndex < Len(filteredLines)

\* C29: the range satisfies 0 <= startIndex <= endIndex <= totalRows, and it
\* is empty when there are no rows, also with a scrollTop left over from a
\* longer view.
C29_RangeWithinRows ==
    /\ 0 <= startIndex
    /\ startIndex <= endIndex
    /\ endIndex <= Len(filteredLines)
    /\ Len(filteredLines) = 0 => startIndex = endIndex

\* The band of row r, 22r up to 22(r + 1), meets the pixels from low up to
\* high.
BandMeets(r, low, high) == r * 22 < high /\ (r + 1) * 22 > low

\* C30: every row whose band meets the visible region, scrollTop up to
\* scrollTop + containerHeight, lies in the range, and every row of the range
\* is such a row or one of up to ten rows before or after them.
C30_ViewportCoverage ==
    \A r \in 0..(Len(filteredLines) - 1) :
        /\ BandMeets(r, scrollTop, scrollTop + containerHeight)
               => startIndex <= r /\ r < endIndex
        /\ BandMeets(r, scrollTop - Padding, scrollTop - Padding + containerHeight)
               => startIndex <= r /\ r < endIndex
        /\ (startIndex <= r /\ r < endIndex)
               => BandMeets(r, scrollTop - 10 * 22, scrollTop + containerHeight + 10 * 22)

\* Rows are hidden above and below the range while the container shows the
\* middle of a long view.
C30_Witness ==
    /\ containerHeight > 0
    /\ scrollTop % ROW_HEIGHT # 0
    /\ startIndex > 0
    /\ endIndex < Len(filteredLines)
    /\ Len(visibleLines) = endIndex - startIndex

\* ------------------------------------------------------ pure readers

\* C31: a scroll event, a change of the raw search term and a firing debounce
\* timeout each leave the Line Store and totalBytes unchanged.
C31_ReadersLeaveStore ==
    [][(handleScroll(scrollTop') \/ searchTerm' # searchTerm \/ DebounceFires)
          => logLines' = logLines /\ totalBytes' = totalBytes]_vars

\* A term filters rows away and the container was scrolled off the bottom:
\* the store still holds every line.
C31_Witness ==
    /\ debouncedSearchTerm # <<>>
    /\ ~debouncePending
    /\ Len(filteredLines) > 0
    /\ Len(filteredLines) < Len(logLines)
    /\ scrollTop < MaxScroll

\* ------------------------------------------------- failures of the stream

Pieces(text) == {text[i] : i \in 1..Len(text)}

\* The error text carries a failure of the GET request as it was: the
\* message of the rejection, or the status and the body text of the answer.
CarriesFailure(text, failure) ==
    IF failure = "rejected" THEN "Failed to fetch" \in Pieces(text)
    ELSE IF failure = "status"
    THEN ServerError.status \in Pieces(text) /\ ServerError.text \in Pieces(text)
    ELSE "Response body is empty." \in Pieces(text)

\* C32: a failure of the initial stream that is no cancellation ends the
\* session in Errored with an error that carries the failure as it was, the
\* body text of a non-success answer included, and the session stays Errored.
C32_FailureSurfacedVerbatim ==
    /\ [][\A failure \in GetFailures :
            GetFailsWith(session, failure) /\ ~tasks[session].aborted =>
                /\ status' = Errored
                /\ error' # NoError
                /\ CarriesFailure(error', failure)]_vars
    /\ [][ReadFails(session) /\ CanRead(session) =>
            /\ status' = Errored
            /\ "network error" \in Pieces(error')]_vars
    /\ [][(status = Errored) => status' = Errored /\ error' = error]_vars

\* The App with the capped viewer opened on a file (part_001, lines 76-83,
\* 116-118), whatever base location it holds, and a call of fetchLogFiles.
InitLocator ==
    \E url \in BaseUrls, file \in SeqsUpTo(FileBytes, MaxLen) :
        MountedAt(url, [type |-> "remote", file |-> file], NewTask("get"),
                  [fileSize |-> NoSize, status |-> Connecting, error |-> NoError])

NextLocator ==
    \/ fetchLogFiles_Call
    \/ fetchLogFiles_Response
    \/ CollectGetFails(1)
    \/ Capped_GetResponse(1)
    \/ Capped_ReadChunk(1)
    \/ Capped_ReadDone(1)
    \/ Capped_ReadFails(1)

SpecLocator == InitLocator /\ [][NextLocator]_vars

\* A request of the stream task is in flight.
RequestInFlight(task) == task.pc \in {"head", "get", "read"}

\* C33: with a base location that does not start with http, listing the files
\* reports the invalid location without a fetch, and opening a log stream
\* reports an error without a request in flight.
C33_MalformedLocationFailsFast ==
    ~StartsWith(logServerUrl, <<"h", "t", "t", "p">>) =>
        /\ listing.pc # "fetch"
        /\ listing.pc = "done" => listing.files = <<InvalidUrlFormat>>
        /\ ~RequestInFlight(tasks[session])
        /\ error # NoError

\* ------------------------------------------------------ the capped viewer

\* The last n elements of a sequence, all of them when it is shorter.
LastOf(q, n) == IF Len(q) > n THEN SubSeq(q, Len(q) - n + 1, Len(q)) ELSE q

\* C34: in the capped viewer the stream task retains at most
\* MAX_DISPLAY_LINES lines whenever it is suspended, the Line Store never
\* holds more, and after the stream has finished the Line Store is the last
\* MAX_DISPLAY_LINES lines of the file, or all of them, in file order.
C34_CapRetainsLastLines ==
    /\ Len(tasks[1].allLines) <= MAX_DISPLAY_LINES
    /\ Len(logLines) <= MAX_DISPLAY_LINES
    /\ status = Finished =>
          logLines = LastOf(SingleChunkLines(sources[1].file), MAX_DISPLAY_LINES)

\* The stream of a file of more than MAX_DISPLAY_LINES lines has finished.
C34_Witness ==
    /\ status = Finished
    /\ Len(SingleChunkLines(sources[1].file)) > MAX_DISPLAY_LINES
    /\ Len(logLines) = MAX_DISPLAY_LINES

\* The number shown beside the k-th row of the filtered view (originalIndex + 1).
LineNumber(k) == filteredLines[k].originalIndex + 1

\* C35: after the stream has finished, the number shown beside a displayed
\* line is the 1-based position of that line among all lines of the file:
\* the file has a line of that number and it is the displayed one, under
\* every search term.
C35_LineNumberIsFilePosition ==
    status = Finished =>
        LET fileLines == SingleChunkLines(sources[1].file)
        IN  \A k \in 1..Len(filteredLines) :
                /\ LineNumber(k) \in 1..Len(fileLines)
                /\ fileLines[LineNumber(k)] = filteredLines[k].line

\* ------------------------------------------------------------- tail polls

\* C36: no two range requests of a session in flight were started from the
\* same offset, and a range request whose content is appended was started
\* from the current totalBytes, so that no byte is appended twice.
C36_OnePollPerOffset ==
    /\ [](\A i, j \in 1..Len(polls) :
             (i # j /\ polls[i].session = polls[j].session) => polls[i].from # polls[j].from)
    /\ [][\A i \in 1..Len(polls) : PollContent(i) => polls[i].from = totalBytes]_vars

\* C37: once the stream has ended and while tailing is off, switched off by
\* the user or by a failed range request, no step changes the Line Store or
\* totalBytes.
C37_StoppedTailingAppendsNothing ==
    [][(~isLoading /\ ~isLive) => (logLines' = logLines /\ totalBytes' = totalBytes)]_vars

\* ------------------------------------------------------- the tail interval

\* C38: at most one interval of the tailing effect runs; one runs only while
\* tailing is on, the source is remote and the status is 'Stream finished.'
\* or starts with 'Live'; and tailingIntervalRef holds every running
\* interval, so that the cleanup of the next run of the effect clears it
\* before the body sets a new one.
C38_OneTailInterval ==
    /\ Cardinality(intervals) <= 1
    /\ intervals # {} =>
          isLive /\ source.type = "remote" /\ status \in {Finished, Live, LiveError}
    /\ intervals \subseteq {tailingIntervalRef}

\* The effect has re-run while tailing, after a range request brought new
\* bytes and with another request in flight: one interval runs.
C38_Witness ==
    /\ isLive
    /\ status = Live
    /\ totalBytes > 0
    /\ polls # <<>>
    /\ intervals = {tailingIntervalRef}

\* ------------------------------------------------------- source changes

\* C39: a step of the stream task of an earlier session changes neither the
\* status nor the error of the current session.
C39_EarlierTaskLeavesStatus ==
    [][\A s \in 1..MaxSessions :
          (s < session /\ StreamStep(s)) => (status' = status /\ error' = error)]_vars

\* ------------------------------------------------------- the size probe

\* C40: the HEAD request, however it settles, sets no error and is followed
\* by the GET request under the status 'Connecting to stream...'; it leaves
\* fileSize unknown unless it brought a size; and a session whose HEAD request
\* was ended by the Cancel button ends with 'Stream cancelled.' and no error.
C40_ProbeFailureIsHarmless ==
    /\ [][HeadResponse(1) =>
             /\ status' = Connecting
             /\ error' = NoError
             /\ tasks'[1].pc = "get"
             /\ fileSize' \in {fileSize, Len(sources[1].file)}
             /\ tasks[1].aborted => fileSize' = NoSize]_vars
    /\ [][(tasks[1].aborted /\ tasks[1].pc = "get" /\ StreamStep(1)) =>
             (status' = Cancelled /\ error' = NoError)]_vars

\* The stream of a remote file is being read with the size unknown, after a
\* HEAD request that brought none.
C40_Witness ==
    /\ source.type = "remote"
    /\ status = StreamingRemote
    /\ fileSize = NoSize
    /\ totalBytes > 0

====
